---- MODULE Spec2Model ----
(***************************************************************************)
(* Model of mcp-simple-textedit:                                           *)
(*   textedit_procedure.edit_text_file   (engine "procedure")              *)
(*   tools.edit.edit_file                (engine "tool")                   *)
(*   tools.append.append_text            (engine "append")                 *)
(*   the two path validators             (engine "server", "tools")        *)
(*   server.TextEditServer.call_tool     (the calls in reqs)               *)
(* Text is a sequence of one-character strings, a line is a text, the file *)
(* on disk is one text.  Optional fields of an operation record are        *)
(* None == <<>> (key absent) or Some(v) == <<v>>.                          *)
(***************************************************************************)
EXTENDS Integers, Sequences, FiniteSets, TLC

VARIABLES
    disk,        \* content of the file on disk (a text)
    disk0,       \* content of the file when the request arrived
    operations,  \* the operation list passed to the engine
    engine,      \* "none" | "procedure" | "tool" | "append" | "server" | "tools":
                 \* which entry point took the request
    pc,          \* "idle" | "loop" | "done" | "failed"
    lines,       \* the in-memory line sequence
    lines0,      \* the line sequence as read from disk
    idx,         \* number of operations applied so far
    err,         \* kind of the exception that ended the request, "" if none
    last,        \* the last loop iteration: operation, lines before, outcome
    opens,       \* number of open() calls on the file so far
    append_content,  \* append_text: the content argument
    ensure_newline,  \* append_text: the ensure_newline argument
    needs_newline,   \* append_text: the local needs_newline
    base_path,   \* path validation: the base directory (resolved)
    file_path,   \* path validation: the file_path argument
    fs,          \* path validation: the files and directories that exist
    validated,   \* path validation: the path returned, None if none
    reqs,        \* server: the edit_file tool calls, each with its locals
    running,     \* server: the call the event loop is running, 0 if none
    log          \* server: the reads and writes of the file, in order

editVars == <<operations, engine, lines, lines0, idx, last>>

appendVars == <<append_content, ensure_newline, needs_newline>>

pathVars == <<base_path, file_path, fs, validated>>

serverVars == <<reqs, running, log>>

others == <<appendVars, pathVars, serverVars>>

vars == <<disk, disk0, pc, err, opens, editVars, others>>

----------------------------------------------------------------------------
(* Bounds of the model *)

MaxLines == 2

MaxOps == 2

----------------------------------------------------------------------------
(* Characters and small helpers *)

LF == "\n"

CR == "\r"

None == <<>>

Some(v) == <<v>>

IsSome(o) == o # <<>>

Get(o) == o[1]

(* The element of a one-element set; binds a computed value once *)
Only(S) == CHOOSE x \in S : TRUE

Min(a, b) == IF a < b THEN a ELSE b

Max(a, b) == IF a > b THEN a ELSE b

(* Python slice bound: a negative bound counts from the end, then clamps *)
SliceBound(i, n) == IF i < 0 THEN Max(i + n, 0) ELSE Min(i, n)

(* Python s[lo:hi] *)
PySlice(s, lo, hi) == SubSeq(s, SliceBound(lo, Len(s)) + 1, SliceBound(hi, Len(s)))

(* Python s[:hi] *)
PyUpTo(s, hi) == PySlice(s, 0, hi)

(* Python s[lo:] *)
PyFrom(s, lo) == PySlice(s, lo, Len(s))

(* ''.join(seq) *)
Join(ss) ==
    LET f[i \in 0..Len(ss)] == IF i = 0 THEN <<>> ELSE f[i - 1] \o ss[i]
    IN f[Len(ss)]

IsSpace(c) == c \in {" ", LF, CR, "\t"}

(* str.strip(): drop the whitespace before the first and after the last     *)
(* character that is not whitespace                                        *)
Strip(s) ==
    LET keep == {i \in 1..Len(s) : ~IsSpace(s[i])}
    IN IF keep = {} THEN <<>>
       ELSE SubSeq(s, CHOOSE i \in keep : \A j \in keep : i <= j,
                      CHOOSE i \in keep : \A j \in keep : i >= j)

(* str.endswith('\n') *)
EndsWithNewline(s) == Len(s) > 0 /\ s[Len(s)] = LF

(* re.search(pattern, line) for the regex fragment used here: literal      *)
(* characters, an optional leading ^ and an optional trailing $.  $ matches *)
(* at the end of the string and just before a final newline.  The empty    *)
(* pattern matches every line.                                             *)
ReSearch(pattern, line) ==
    LET anchS == Len(pattern) > 0 /\ pattern[1] = "^"
        p1    == IF anchS THEN Tail(pattern) ELSE pattern
        anchE == Len(p1) > 0 /\ p1[Len(p1)] = "$"
        body  == IF anchE THEN SubSeq(p1, 1, Len(p1) - 1) ELSE p1
        n     == Len(line)
        m     == Len(body)
    IN \E i \in 0..(n - m) :
          /\ SubSeq(line, i + 1, i + m) = body
          /\ anchS => i = 0
          /\ anchE => \/ i + m = n
                      \/ i + m = n - 1 /\ line[n] = LF

(* next((i for i in range(from, len(lines)) if re.search(p, lines[i])), -1) *)
(* with from >= 0; indices are 0-based as in the code                      *)
FirstMatch(pattern, ls, from) ==
    LET hits == {i \in from..(Len(ls) - 1) : ReSearch(pattern, ls[i + 1])}
    IN IF hits = {} THEN -1 ELSE CHOOSE i \in hits : \A j \in hits : i <= j

(* Universal-newline translation of open(path, 'r'): \r\n and \r become \n *)
Translate(t) ==
    LET f[i \in 0..Len(t)] ==
            IF i = 0 THEN <<>>
            ELSE IF t[i] = CR /\ i < Len(t) /\ t[i + 1] = LF THEN f[i - 1]
            ELSE f[i - 1] \o <<IF t[i] = CR THEN LF ELSE t[i]>>
    IN f[Len(t)]

(* Split a text after every newline, keeping the newline; a last line       *)
(* without a newline is kept too                                           *)
SplitLines(t) ==
    LET g[i \in 0..Len(t)] ==
            IF i = 0 THEN [done |-> <<>>, cur |-> <<>>]
            ELSE IF t[i] = LF
                 THEN [done |-> Append(g[i - 1].done, Append(g[i - 1].cur, LF)),
                       cur |-> <<>>]
                 ELSE [done |-> g[i - 1].done, cur |-> Append(g[i - 1].cur, t[i])]
        r == g[Len(t)]
    IN IF r.cur = <<>> THEN r.done ELSE Append(r.done, r.cur)

(* f.readlines() on a file opened with open(path, 'r') *)
ReadLines(content) == SplitLines(Translate(content))

(* f.writelines(lines) on a file opened with newline='' : no translation *)
WriteLines(ls) == Join(ls)

----------------------------------------------------------------------------
(* Operation records.  Every record has every key; None marks an absent key *)

BaseOp(t) ==
    [type |-> t,
     start_pattern |-> None, end_pattern |-> None,
     after_pattern |-> None, before_pattern |-> None,
     start_line |-> None, end_line |-> None, after_line |-> None,
     content |-> None, expected_content |-> None]

(* Python truthiness of an Optional[str]: present and not the empty string *)
StrTruthy(o) == IsSome(o) /\ Get(o) # <<>>

(* Python truthiness of an Optional[int]: present and not zero *)
IntTruthy(o) == IsSome(o) /\ Get(o) # 0

(* Outcome of one operation: err = "" on success *)
Ok(ls, s, e) == [err |-> "", lines |-> ls, start |-> s, end |-> e]

Raise(kind) == [err |-> kind, lines |-> <<>>, start |-> None, end |-> None]

(* line if line.endswith('\n') else line + '\n' *)
NormalizeLineTwice(s) == s \o <<LF>>

NormalizeLine(s) == IF EndsWithNewline(s) THEN s ELSE s \o <<LF>>

(* [normalize(line) for line in content] *)
NormalizeContent(content) == [j \in 1..Len(content) |-> NormalizeLine(content[j])]

----------------------------------------------------------------------------
(* Engine "procedure": textedit_procedure.py *)

(* Start index of Delete/Replace: [err, idx] *)
ProcStart(op, ls) ==
    IF StrTruthy(op.start_pattern)
    THEN LET m == FirstMatch(Get(op.start_pattern), ls, 0)
         IN IF m = -1 THEN [err |-> "PatternNotFound", idx |-> -1]
                      ELSE [err |-> "", idx |-> m]
    ELSE IF op.start_line = None
         THEN [err |-> "TypeError", idx |-> -1]
         ELSE [err |-> "", idx |-> Get(op.start_line) - 1]

(* End index of Delete/Replace given the start index: [err, idx] *)
ProcEnd(op, ls, start_idx) ==
    IF StrTruthy(op.end_pattern)
    THEN LET m == FirstMatch(Get(op.end_pattern), ls, start_idx + 1)
         IN IF m = -1 THEN [err |-> "PatternNotFound", idx |-> -1]
                      ELSE [err |-> "", idx |-> m]
    ELSE [err |-> "",
          idx |-> IF IntTruthy(op.end_line) THEN Get(op.end_line) - 1 ELSE start_idx]

(* The verification gate of Delete/Replace: TRUE when the operation may go on *)
ProcVerify(op, ls, start_idx, end_idx) ==
    IF StrTruthy(op.expected_content)
    THEN Strip(Join(PySlice(ls, start_idx, end_idx + 1))) = Strip(Get(op.expected_content))
    ELSE TRUE

DeleteApply(op, ls) ==
    Only({ IF s.err # "" THEN Raise(s.err)
           ELSE Only({ IF e.err # "" THEN Raise(e.err)
                       ELSE IF ~ProcVerify(op, ls, s.idx, e.idx)
                            THEN Raise("VerificationFailed")
                       ELSE Ok(PyUpTo(ls, s.idx) \o PyFrom(ls, e.idx + 1),
                               Some(s.idx), Some(e.idx))
                       : e \in {ProcEnd(op, ls, s.idx)} })
           : s \in {ProcStart(op, ls)} })

ReplaceApply(op, ls) ==
    Only({ IF s.err # "" THEN Raise(s.err)
           ELSE Only({ IF e.err # "" THEN Raise(e.err)
                       ELSE IF ~ProcVerify(op, ls, s.idx, e.idx)
                            THEN Raise("VerificationFailed")
                       ELSE Ok(PyUpTo(ls, s.idx) \o NormalizeContent(Get(op.content))
                                   \o PyFrom(ls, e.idx + 1),
                               Some(s.idx), Some(e.idx))
                       : e \in {ProcEnd(op, ls, s.idx)} })
           : s \in {ProcStart(op, ls)} })

(* InsertPoint that takes after_line itself as the 0-based index *)
InsertPointOffByOne(op, ls) ==
    IF op.after_line = None
    THEN [err |-> "TypeError", idx |-> -1]
    ELSE [err |-> "", idx |-> Get(op.after_line)]

(* Insertion point of Insert: [err, idx] *)
InsertPoint(op, ls) ==
    IF StrTruthy(op.after_pattern)
    THEN LET m == FirstMatch(Get(op.after_pattern), ls, 0)
         IN IF m = -1 THEN [err |-> "PatternNotFound", idx |-> -1]
                      ELSE [err |-> "", idx |-> m]
    ELSE IF StrTruthy(op.before_pattern)
    THEN LET m == FirstMatch(Get(op.before_pattern), ls, 0)
             i == IF m = -1 THEN -1 ELSE m - 1
         IN IF i = -1 THEN [err |-> "PatternNotFound", idx |-> -1]
                      ELSE [err |-> "", idx |-> i]
    ELSE IF op.after_line = None
         THEN [err |-> "TypeError", idx |-> -1]
         ELSE [err |-> "", idx |-> Get(op.after_line) - 1]

InsertApply(op, ls) ==
    Only({ IF a.err # "" THEN Raise(a.err)
           ELSE IF StrTruthy(op.expected_content) /\ a.idx >= 0 /\ a.idx >= Len(ls)
                THEN Raise("IndexError")
           ELSE IF /\ StrTruthy(op.expected_content) /\ a.idx >= 0
                   /\ Strip(ls[a.idx + 1]) # Strip(Get(op.expected_content))
                THEN Raise("VerificationFailed")
           ELSE Ok(PyUpTo(ls, a.idx + 1) \o NormalizeContent(Get(op.content))
                       \o PyFrom(ls, a.idx + 1),
                   Some(a.idx), Some(a.idx))
           : a \in {InsertPoint(op, ls)} })

(* create_operation(operation_dict).apply(lines) *)
ProcOperation(op, ls) ==
    IF op.type = "delete" THEN DeleteApply(op, ls)
    ELSE IF op.type = "replace"
         THEN IF op.content = None THEN Raise("KeyError") ELSE ReplaceApply(op, ls)
    ELSE IF op.type = "insert"
         THEN IF op.content = None THEN Raise("KeyError") ELSE InsertApply(op, ls)
    ELSE Raise("UnknownOperationType")

----------------------------------------------------------------------------
(* Engine "tool": tools/edit.py.  find_block's None is -1 here; the None of *)
(* an end_idx that was never assigned is the option None                   *)

find_block(ls, pattern, start_from) == FirstMatch(pattern, ls, start_from)

verify_content(ls, start, end, expected) ==
    Strip(Join(PySlice(ls, start, end + 1))) = Strip(expected)

(* The block of process_operation: [err, start, end], end an option *)
ToolBlock(op, ls) ==
    IF IsSome(op.start_pattern)
    THEN LET s == find_block(ls, Get(op.start_pattern), 0)
         IN IF s = -1 THEN [err |-> "PatternNotFound", start |-> -1, end |-> None]
            ELSE IF IsSome(op.end_pattern)
                 THEN LET e == find_block(ls, Get(op.end_pattern), s + 1)
                      IN IF e = -1
                         THEN [err |-> "PatternNotFound", start |-> s, end |-> None]
                         ELSE [err |-> "", start |-> s, end |-> Some(e)]
                 ELSE [err |-> "", start |-> s, end |-> None]
    ELSE IF IsSome(op.after_pattern)
    THEN LET s == find_block(ls, Get(op.after_pattern), 0)
         IN IF s = -1 THEN [err |-> "PatternNotFound", start |-> -1, end |-> None]
                      ELSE [err |-> "", start |-> s, end |-> Some(s)]
    ELSE IF IsSome(op.before_pattern)
    THEN LET e == find_block(ls, Get(op.before_pattern), 0)
         IN IF e = -1 THEN [err |-> "PatternNotFound", start |-> -1, end |-> None]
                      ELSE [err |-> "", start |-> e - 1, end |-> Some(e)]
    ELSE LET s == (IF IsSome(op.start_line) THEN Get(op.start_line)
                   ELSE IF IsSome(op.after_line) THEN Get(op.after_line) ELSE 1) - 1
             e == IF IsSome(op.end_line) THEN Get(op.end_line) ELSE s
         IN IF s < 0 \/ e >= Len(ls)
            THEN [err |-> "InvalidLineRange", start |-> s, end |-> Some(e)]
            ELSE [err |-> "", start |-> s, end |-> Some(e)]

process_operation(op, ls) ==
    Only({ IF b.err # "" THEN Raise(b.err)
           ELSE IF IsSome(op.expected_content) /\ b.end = None THEN Raise("TypeError")
           ELSE IF /\ IsSome(op.expected_content)
                   /\ ~verify_content(ls, b.start, Get(b.end), Get(op.expected_content))
                THEN Raise("VerificationFailed")
           ELSE IF op.type = "delete"
                THEN IF b.end = None THEN Raise("TypeError")
                     ELSE Ok(PyUpTo(ls, b.start) \o PyFrom(ls, Get(b.end) + 1),
                             Some(b.start), b.end)
           ELSE IF op.type = "replace"
                THEN IF op.content = None THEN Raise("MissingContent")
                     ELSE IF b.end = None THEN Raise("TypeError")
                     ELSE Ok(PyUpTo(ls, b.start) \o NormalizeContent(Get(op.content))
                                 \o PyFrom(ls, Get(b.end) + 1),
                             Some(b.start), b.end)
           ELSE IF op.type = "insert"
                THEN IF op.content = None THEN Raise("MissingContent")
                     ELSE Ok(PyUpTo(ls, b.start + 1) \o NormalizeContent(Get(op.content))
                                 \o PyFrom(ls, b.start + 1),
                             Some(b.start), b.end)
           ELSE Raise("UnknownOperationType")
           : b \in {ToolBlock(op, ls)} })

----------------------------------------------------------------------------
(* Inputs: files and operation lists *)

Bodies == {<<"a">>, <<"b">>}

TermLines == {b \o <<LF>> : b \in Bodies}

LineSeqs(n) == UNION {[1..k -> TermLines] : k \in 0..n}

(* ["a\n", "b\n", "c\n"], the file of the worked examples *)
ExampleLines == << <<"a", LF>>, <<"b", LF>>, <<"c", LF>> >>

(* A file with CRLF terminators: "a\r\nb\r\n" *)
CrlfFile == <<"a", CR, LF, "b", CR, LF>>

(* Files of at most MaxLines lines; the last line may lack its newline *)
Files ==
    {Join(ls) : ls \in LineSeqs(MaxLines)}
    \cup {Join(ls) \o b : ls \in LineSeqs(MaxLines - 1), b \in Bodies}
    \cup {Join(ExampleLines), CrlfFile}

OpLists(ops) == UNION {[1..k -> ops] : k \in 0..MaxOps}

Delete(fields) == fields @@ BaseOp("delete")

Replace(fields) == fields @@ BaseOp("replace")

Insert(fields) == fields @@ BaseOp("insert")

(* [Delete(start_line=2,end_line=2), Insert(after_line=1, content=["x"])] *)
ExampleDelete == Delete([start_line |-> Some(2), end_line |-> Some(2)])

ExampleInsert == Insert([after_line |-> Some(1), content |-> Some(<< <<"x">> >>)])

(* Replace(start_pattern="^b$", content=["B1","B2"]) *)
ExampleReplace ==
    Replace([start_pattern |-> Some(<<"^", "b", "$">>),
             content |-> Some(<< <<"B", "1">>, <<"B", "2">> >>)])

(* A mix of operations of every type, succeeding and failing in every way *)
CoreOps ==
    { Delete([start_line |-> Some(1)]),
      ExampleDelete,
      Delete([start_pattern |-> Some(<<"a">>), end_pattern |-> Some(<<"b">>)]),
      Delete([start_pattern |-> Some(<<"z">>)]),
      Delete([start_line |-> Some(1), expected_content |-> Some(<<"z", "z", "z">>)]),
      Delete([start_line |-> Some(1), expected_content |-> Some(<<"a">>)]),
      Replace([start_line |-> Some(1),
               content |-> Some(<< <<"B", "1">>, <<"B", "2">> >>)]),
      Replace([start_line |-> Some(1)]),
      Replace([start_line |-> Some(2), content |-> Some(<< <<"x", LF>> >>)]),
      ExampleReplace,
      ExampleInsert,
      Insert([after_pattern |-> Some(<<"b">>),
              content |-> Some(<< <<"x", LF>>, <<"x", LF, LF>>, <<>> >>)]),
      Insert([before_pattern |-> Some(<<"b">>), content |-> Some(<< <<"x">> >>)]),
      Insert([after_line |-> Some(3), content |-> Some(<< <<"x">> >>)]),
      Insert([after_line |-> Some(1)]),
      [BaseOp("bogus") EXCEPT !.start_line = Some(1)] }

(* Delete/Replace by line number with every kind of expected_content *)
ExpectedSet ==
    {None, Some(<<>>), Some(<<" ">>), Some(<<"a">>), Some(<<"a", LF>>),
     Some(<<"z", "z", "z">>)}

VerifyOps ==
    {Delete([start_line |-> Some(n), expected_content |-> x])
        : n \in {1, 2}, x \in ExpectedSet}
    \cup {Replace([start_line |-> Some(n), expected_content |-> x,
                   content |-> Some(<< <<"x">> >>)])
        : n \in {1, 2}, x \in ExpectedSet}

(* Operations located by pattern, with and without line numbers beside it *)
Pats == {<<>>, <<"a">>, <<"b">>}

PatternOps ==
    {Delete([start_pattern |-> Some(p), end_pattern |-> e, start_line |-> n])
        : p \in Pats, e \in {None, Some(<<"b">>)}, n \in {None, Some(2)}}
    \cup {Delete([start_pattern |-> Some(<<"a">>), end_pattern |-> Some(<<>>),
                  end_line |-> Some(1)])}
    \cup {Replace([start_pattern |-> Some(p), content |-> Some(<< <<"x">> >>)])
        : p \in Pats}
    \cup {ExampleReplace}
    \cup {Insert([after_pattern |-> Some(p), after_line |-> n,
                  content |-> Some(<< <<"x">> >>)])
        : p \in Pats, n \in {None, Some(1), Some(2)}}
    \cup {Insert([before_pattern |-> Some(p), after_line |-> n,
                  content |-> Some(<< <<"x">> >>)])
        : p \in Pats, n \in {None, Some(2)}}

(* Operations located by line number, in and out of range *)
LineOps ==
    {Delete([start_line |-> Some(n), end_line |-> e])
        : n \in 0..3, e \in {None, Some(1), Some(2), Some(3)}}
    \cup {Replace([start_line |-> Some(n), end_line |-> e,
                   content |-> Some(<< <<"x">> >>)])
        : n \in {0, 1, 3}, e \in {None, Some(1)}}
    \cup {Insert([after_line |-> Some(n), content |-> Some(<< <<"x">> >>)])
        : n \in 0..4}
    \cup {Delete([start_line |-> Some(1), expected_content |-> Some(<<"z", "z", "z">>)])}

----------------------------------------------------------------------------
(* The state machine: one request against one file *)

NoStep == [n |-> 0, op |-> BaseOp("none"), before |-> <<>>, res |-> Raise("")]

(* The parts of the state that a request to the edit engines leaves alone *)
AppendIdle == append_content = <<>> /\ ensure_newline = TRUE /\ needs_newline = FALSE

PathIdle == base_path = <<>> /\ file_path = <<>> /\ fs = <<>> /\ validated = None

ServerIdle == reqs = <<>> /\ running = 0 /\ log = <<>>

InitWith(ops) ==
    /\ disk \in Files
    /\ disk0 = disk
    /\ operations \in OpLists(ops)
    /\ engine = "none"
    /\ pc = "idle"
    /\ lines = <<>>
    /\ lines0 = <<>>
    /\ idx = 0
    /\ err = ""
    /\ last = NoStep
    /\ opens = 0
    /\ AppendIdle /\ PathIdle /\ ServerIdle

Init == InitWith(CoreOps)

(* edit_text_file: open(file_path, 'r') and f.readlines() *)
EditTextFile ==
    /\ pc = "idle"
    /\ engine' = "procedure"
    /\ lines' = ReadLines(disk)
    /\ lines0' = ReadLines(disk)
    /\ pc' = "loop"
    /\ UNCHANGED <<disk, disk0, operations, idx, err, last>>
    /\ opens' = opens + 1
    /\ UNCHANGED others

(* ProcApply with every locator resolved against the lines read from disk *)
ProcApplyStale ==
    /\ pc = "loop" /\ engine = "procedure" /\ idx < Len(operations)
    /\ \E res \in {ProcOperation(operations[idx + 1], lines0)} :
          /\ res.err = ""
          /\ lines' = res.lines
          /\ idx' = idx + 1
          /\ last' = [n |-> idx + 1, op |-> operations[idx + 1],
                      before |-> lines, res |-> res]
    /\ UNCHANGED <<disk, disk0, operations, engine, pc, lines0, err>>
    /\ UNCHANGED <<opens, others>>

(* edit_text_file: one iteration of the loop whose apply returns *)
ProcApply ==
    /\ pc = "loop" /\ engine = "procedure" /\ idx < Len(operations)
    /\ \E res \in {ProcOperation(operations[idx + 1], lines)} :
          /\ res.err = ""
          /\ lines' = res.lines
          /\ idx' = idx + 1
          /\ last' = [n |-> idx + 1, op |-> operations[idx + 1],
                      before |-> lines, res |-> res]
    /\ UNCHANGED <<disk, disk0, operations, engine, pc, lines0, err>>
    /\ UNCHANGED <<opens, others>>

(* ProcRaise that writes the lines mutated so far before giving up *)
ProcRaiseFlush ==
    /\ pc = "loop" /\ engine = "procedure" /\ idx < Len(operations)
    /\ \E res \in {ProcOperation(operations[idx + 1], lines)} :
          /\ res.err # ""
          /\ err' = res.err
          /\ pc' = "failed"
          /\ last' = [n |-> idx + 1, op |-> operations[idx + 1],
                      before |-> lines, res |-> res]
    /\ disk' = WriteLines(lines)
    /\ UNCHANGED <<disk0, operations, engine, lines, lines0, idx>>
    /\ opens' = opens + 1
    /\ UNCHANGED others

(* edit_text_file: one iteration of the loop that raises; nothing is written *)
ProcRaise ==
    /\ pc = "loop" /\ engine = "procedure" /\ idx < Len(operations)
    /\ \E res \in {ProcOperation(operations[idx + 1], lines)} :
          /\ res.err # ""
          /\ err' = res.err
          /\ pc' = "failed"
          /\ last' = [n |-> idx + 1, op |-> operations[idx + 1],
                      before |-> lines, res |-> res]
    /\ UNCHANGED <<disk, disk0, operations, engine, lines, lines0, idx>>
    /\ UNCHANGED <<opens, others>>

(* edit_text_file: open(file_path, 'w', newline='') and f.writelines(lines) *)
ProcWrite ==
    /\ pc = "loop" /\ engine = "procedure" /\ idx = Len(operations)
    /\ disk' = WriteLines(lines)
    /\ pc' = "done"
    /\ UNCHANGED <<disk0, operations, engine, lines, lines0, idx, err, last>>
    /\ opens' = opens + 1
    /\ UNCHANGED others

(* edit_file: open(file_path, "r") and f.readlines() *)
EditFile ==
    /\ pc = "idle"
    /\ engine' = "tool"
    /\ lines' = ReadLines(disk)
    /\ lines0' = ReadLines(disk)
    /\ pc' = "loop"
    /\ UNCHANGED <<disk, disk0, operations, idx, err, last>>
    /\ opens' = opens + 1
    /\ UNCHANGED others

(* edit_file: one iteration of the loop whose process_operation returns *)
ToolApply ==
    /\ pc = "loop" /\ engine = "tool" /\ idx < Len(operations)
    /\ \E res \in {process_operation(operations[idx + 1], lines)} :
          /\ res.err = ""
          /\ lines' = res.lines
          /\ idx' = idx + 1
          /\ last' = [n |-> idx + 1, op |-> operations[idx + 1],
                      before |-> lines, res |-> res]
    /\ UNCHANGED <<disk, disk0, operations, engine, pc, lines0, err>>
    /\ UNCHANGED <<opens, others>>

(* edit_file: an iteration that raises; the except clause re-raises it as  *)
(* ValueError("Failed to edit file: ..."), nothing is written              *)
ToolRaise ==
    /\ pc = "loop" /\ engine = "tool" /\ idx < Len(operations)
    /\ \E res \in {process_operation(operations[idx + 1], lines)} :
          /\ res.err # ""
          /\ err' = res.err
          /\ pc' = "failed"
          /\ last' = [n |-> idx + 1, op |-> operations[idx + 1],
                      before |-> lines, res |-> res]
    /\ UNCHANGED <<disk, disk0, operations, engine, lines, lines0, idx>>
    /\ UNCHANGED <<opens, others>>

(* edit_file: open(file_path, "w", newline='') and f.writelines(lines) *)
ToolWrite ==
    /\ pc = "loop" /\ engine = "tool" /\ idx = Len(operations)
    /\ disk' = WriteLines(lines)
    /\ pc' = "done"
    /\ UNCHANGED <<disk0, operations, engine, lines, lines0, idx, err, last>>
    /\ opens' = opens + 1
    /\ UNCHANGED others

Next ==
    \/ EditTextFile
    \/ ProcApply
    \/ ProcRaise
    \/ ProcWrite
    \/ EditFile
    \/ ToolApply
    \/ ToolRaise
    \/ ToolWrite

Spec == Init /\ [][Next]_vars

(* The same machine on the other families of operations *)
InitVerify == InitWith(VerifyOps)

SpecVerify == InitVerify /\ [][Next]_vars

InitPattern == InitWith(PatternOps)

SpecPattern == InitPattern /\ [][Next]_vars

InitLines == InitWith(LineOps)

SpecLines == InitLines /\ [][Next]_vars

----------------------------------------------------------------------------
(* C1: in both engines the file on disk keeps the content it had when the  *)
(* request arrived until the final write; a request that fails at any      *)
(* operation leaves the file as it was, even after earlier operations      *)
(* changed the in-memory lines; the write happens only after the last      *)
(* operation succeeded.                                                    *)
C1_NoPartialWrite ==
    /\ pc # "done" => disk = disk0
    /\ pc = "failed" => err # "" /\ idx < Len(operations)
    /\ pc = "done" => err = "" /\ idx = Len(operations)

(* A request whose second operation failed after the first changed the lines *)
C1_Witness ==
    /\ pc = "failed" /\ idx >= 1 /\ lines # lines0 /\ disk = disk0

(* C2: edit_text_file writes the left fold of apply over the operation     *)
(* list, starting from the lines read from disk: operation k is resolved   *)
(* against the output of operations 0..k-1.  On ["a\n","b\n","c\n"] the    *)
(* list [Delete(start_line=2,end_line=2), Insert(after_line=1,["x"])]      *)
(* writes ["a\n","x\n","c\n"].                                             *)
ProcFold(ops, ls) ==
    LET f[i \in 0..Len(ops)] ==
            IF i = 0 THEN Ok(ls, None, None)
            ELSE Only({ IF r.err # "" THEN r ELSE ProcOperation(ops[i], r.lines)
                        : r \in {f[i - 1]} })
    IN f[Len(ops)]

ExampleOps == <<ExampleDelete, ExampleInsert>>

ExampleResult == << <<"a", LF>>, <<"x", LF>>, <<"c", LF>> >>

C2_SequentialFold ==
    engine = "procedure" =>
        /\ pc = "loop" =>
              \E r \in {ProcFold(SubSeq(operations, 1, idx), lines0)} :
                  r.err = "" /\ lines = r.lines
        /\ pc = "done" =>
              \E r \in {ProcFold(operations, lines0)} :
                  r.err = "" /\ disk = WriteLines(r.lines)
        /\ (pc = "done" /\ lines0 = ExampleLines /\ operations = ExampleOps)
              => disk = WriteLines(ExampleResult)

C2_Witness ==
    /\ engine = "procedure" /\ pc = "done"
    /\ lines0 = ExampleLines /\ operations = ExampleOps
    /\ disk = WriteLines(ExampleResult)

----------------------------------------------------------------------------
(* The last loop iteration, for the claims about single operations *)

Stepped(e) == engine = e /\ last.n > 0

BlockOp(op) == op.type \in {"delete", "replace"}

HasContent(op) == op.type \in {"replace", "insert"} => IsSome(op.content)

Succeeded(r) == r.err = ""

(* i is the lowest 0-based index >= from of a line that matches pattern p *)
IsLowestMatch(p, ls, from, i) ==
    /\ i \in from..(Len(ls) - 1)
    /\ ReSearch(p, ls[i + 1])
    /\ \A j \in from..(i - 1) : ~ReSearch(p, ls[j + 1])

NoMatch(p, ls) == \A j \in 1..Len(ls) : ~ReSearch(p, ls[j])

(* ls with the 0-based block [s, e] replaced by the lines new *)
Spliced(ls, s, e, new) == SubSeq(ls, 1, s) \o new \o SubSeq(ls, e + 2, Len(ls))

(* C3: in edit_text_file a Delete or Replace whose record carries an        *)
(* expected_content (any string, the empty one included) that differs,     *)
(* both trimmed, from the located lines fails with a verification error    *)
(* and mutates nothing; Delete(start_line=1, expected_content="zzz") on    *)
(* ["a\n"] fails and leaves the file untouched.                            *)
C3_VerificationGate ==
    (/\ Stepped("procedure") /\ BlockOp(last.op) /\ HasContent(last.op)
     /\ IsSome(last.op.expected_content))
    => \A s \in {ProcStart(last.op, last.before)} :
       \A e \in {ProcEnd(last.op, last.before, IF s.err = "" THEN s.idx ELSE 0)} :
          (/\ s.err = "" /\ e.err = ""
           /\ Strip(Join(PySlice(last.before, s.idx, e.idx + 1)))
                 # Strip(Get(last.op.expected_content)))
          => /\ last.res.err = "VerificationFailed"
             /\ pc = "failed" /\ lines = last.before /\ disk = disk0

(* C4: in both engines a start_pattern, after_pattern or before_pattern    *)
(* resolves to the lowest index whose line matches, an end_pattern to the  *)
(* lowest matching index strictly greater than the resolved start, and an  *)
(* operation whose pattern matches no line fails with pattern-not-found    *)
(* (the last part is stated for non-empty patterns: the empty pattern      *)
(* matches every line).                                                    *)
C4_SearchOrder ==
    (last.n > 0 /\ HasContent(last.op)) =>
      LET op == last.op
          ls == last.before
          r  == last.res
      IN /\ (BlockOp(op) /\ IsSome(op.start_pattern)) =>
               /\ Succeeded(r) => IsLowestMatch(Get(op.start_pattern), ls, 0, Get(r.start))
               /\ (StrTruthy(op.start_pattern) /\ NoMatch(Get(op.start_pattern), ls))
                     => r.err = "PatternNotFound"
         /\ (BlockOp(op) /\ IsSome(op.start_pattern) /\ IsSome(op.end_pattern)
               /\ Succeeded(r)) =>
               IsLowestMatch(Get(op.end_pattern), ls, Get(r.start) + 1, Get(r.end))
         /\ (op.type = "insert" /\ IsSome(op.after_pattern)) =>
               /\ Succeeded(r) => IsLowestMatch(Get(op.after_pattern), ls, 0, Get(r.start))
               /\ (StrTruthy(op.after_pattern) /\ NoMatch(Get(op.after_pattern), ls))
                     => r.err = "PatternNotFound"
         /\ (op.type = "insert" /\ IsSome(op.before_pattern)
               /\ op.after_pattern = None) =>
               /\ Succeeded(r) =>
                     IsLowestMatch(Get(op.before_pattern), ls, 0, Get(r.start) + 1)
               /\ (StrTruthy(op.before_pattern) /\ NoMatch(Get(op.before_pattern), ls))
                     => r.err = "PatternNotFound"

(* An operation located by line numbers alone *)
LineMode(op) ==
    /\ op.start_pattern = None /\ op.end_pattern = None
    /\ op.after_pattern = None /\ op.before_pattern = None

(* C5: in edit_text_file a line-number operation whose numbers are out of  *)
(* range (Delete/Replace with start_line < 1, end_line > line count or     *)
(* end_line < start_line; Insert with after_line > line count) fails with  *)
(* an invalid-line-range error and changes nothing, and every successful   *)
(* Delete/Replace has a block with 0 <= start <= end < len(lines).         *)
C5_LineRange ==
    (Stepped("procedure") /\ LineMode(last.op) /\ HasContent(last.op)) =>
      LET op == last.op
          n  == Len(last.before)
          r  == last.res
      IN /\ (BlockOp(op) /\ IsSome(op.start_line)) =>
               LET s == Get(op.start_line)
                   e == IF IsSome(op.end_line) THEN Get(op.end_line) ELSE s
               IN /\ (s < 1 \/ e > n \/ e < s) =>
                        /\ r.err = "InvalidLineRange"
                        /\ lines = last.before /\ disk = disk0
                  /\ Succeeded(r) =>
                        /\ 0 <= Get(r.start) /\ Get(r.start) <= Get(r.end)
                        /\ Get(r.end) < n
         /\ (op.type = "insert" /\ IsSome(op.after_line) /\ Get(op.after_line) > n) =>
               /\ r.err = "InvalidLineRange"
               /\ lines = last.before /\ disk = disk0

(* C6: in edit_text_file an Insert with a before_pattern whose first match *)
(* is line m (0-based) succeeds and puts the normalized content            *)
(* immediately before line m; for m = 0 the content comes first in the     *)
(* file.  Stated for non-empty patterns and records without               *)
(* after_pattern and expected_content.                                     *)
C6_InsertBefore ==
    (/\ Stepped("procedure") /\ last.op.type = "insert" /\ IsSome(last.op.content)
     /\ StrTruthy(last.op.before_pattern) /\ last.op.after_pattern = None
     /\ last.op.expected_content = None)
    => \A m \in 0..(Len(last.before) - 1) :
          IsLowestMatch(Get(last.op.before_pattern), last.before, 0, m) =>
             /\ Succeeded(last.res)
             /\ last.res.lines =
                   Spliced(last.before, m, m - 1, NormalizeContent(Get(last.op.content)))

(* Two outcomes are the same: same error, same lines *)
SameOutcome(r1, r2) == r1.err = r2.err /\ r1.lines = r2.lines

LineNumbers == 0..(MaxLines + 1)

(* C7: in edit_text_file, when an operation record carries a pattern field *)
(* (any string, the empty pattern included) and the corresponding line     *)
(* number field, the pattern alone decides: the outcome is the same for    *)
(* every value of the line number.                                         *)
C7_PatternPrecedence ==
    (Stepped("procedure") /\ HasContent(last.op)) =>
      LET op == last.op
          ls == last.before
          r  == last.res
      IN /\ (BlockOp(op) /\ IsSome(op.start_pattern) /\ IsSome(op.start_line)) =>
               \A n \in LineNumbers :
                  SameOutcome(ProcOperation([op EXCEPT !.start_line = Some(n)], ls), r)
         /\ (BlockOp(op) /\ IsSome(op.end_pattern) /\ IsSome(op.end_line)) =>
               \A n \in LineNumbers :
                  SameOutcome(ProcOperation([op EXCEPT !.end_line = Some(n)], ls), r)
         /\ (/\ op.type = "insert" /\ IsSome(op.after_line)
             /\ (IsSome(op.after_pattern) \/ IsSome(op.before_pattern))) =>
               \A n \in LineNumbers :
                  SameOutcome(ProcOperation([op EXCEPT !.after_line = Some(n)], ls), r)

(* C8: in tools.edit.edit_file a Delete or Replace with a start_pattern    *)
(* and no end_pattern succeeds on exactly the first matching line m:       *)
(* Replace(start_pattern="^b$", content=["B1","B2"]) on                    *)
(* ["a\n","b\n","c\n"] yields ["a\n","B1\n","B2\n","c\n"].  Stated for    *)
(* non-empty patterns and records without expected_content.                *)
C8_SingleLineBlock ==
    (/\ Stepped("tool") /\ BlockOp(last.op) /\ HasContent(last.op)
     /\ StrTruthy(last.op.start_pattern) /\ last.op.end_pattern = None
     /\ last.op.expected_content = None)
    => \A m \in 0..(Len(last.before) - 1) :
          IsLowestMatch(Get(last.op.start_pattern), last.before, 0, m) =>
             /\ Succeeded(last.res)
             /\ last.res.lines =
                   Spliced(last.before, m, m,
                           IF last.op.type = "replace"
                           THEN NormalizeContent(Get(last.op.content)) ELSE <<>>)

(* C9: in tools.edit.edit_file start_line and end_line are 1-based         *)
(* inclusive: for 1 <= s <= e <= n Delete(start_line=s, end_line=e)        *)
(* removes exactly lines s..e, and [Delete(start_line=2,end_line=2),       *)
(* Insert(after_line=1, content=["x"])] on ["a\n","b\n","c\n"] yields      *)
(* ["a\n","x\n","c\n"].                                                    *)
C9_OneBasedInclusive ==
    /\ (/\ Stepped("tool") /\ last.op.type = "delete" /\ LineMode(last.op)
        /\ IsSome(last.op.start_line) /\ IsSome(last.op.end_line)
        /\ last.op.expected_content = None
        /\ 1 <= Get(last.op.start_line)
        /\ Get(last.op.start_line) <= Get(last.op.end_line)
        /\ Get(last.op.end_line) <= Len(last.before))
       => /\ Succeeded(last.res)
          /\ last.res.lines = Spliced(last.before, Get(last.op.start_line) - 1,
                                      Get(last.op.end_line) - 1, <<>>)
    /\ (/\ engine = "tool" /\ pc \in {"done", "failed"}
        /\ lines0 = ExampleLines /\ operations = ExampleOps)
       => pc = "done" /\ disk = WriteLines(ExampleResult)

(* s with one newline added unless it already ends with one *)
WithNewline(t) == IF Len(t) > 0 /\ t[Len(t)] = LF THEN t ELSE Append(t, LF)

(* t ends with a newline and the character before it is no newline *)
EndsWithOneNewline(t) ==
    /\ Len(t) > 0 /\ t[Len(t)] = LF
    /\ Len(t) > 1 => t[Len(t) - 1] # LF

(* new is old with the lines c put in at p, in order, between a prefix and *)
(* a suffix of old                                                         *)
SplicedAt(old, new, c, p) ==
    /\ Len(new) >= p + Len(c)
    /\ SubSeq(new, 1, p) = SubSeq(old, 1, p)
    /\ \A j \in 1..Len(c) : new[p + j] = c[j]
    /\ \E q \in 0..Len(old) :
          SubSeq(new, p + Len(c) + 1, Len(new)) = SubSeq(old, q + 1, Len(old))

ContentStep ==
    /\ last.n > 0 /\ Succeeded(last.res)
    /\ last.op.type \in {"replace", "insert"}

(* C10 as amended: in both engines every content string s of a successful  *)
(* Replace or Insert becomes s itself when s ends with a newline and s     *)
(* followed by one newline otherwise, so every spliced line ends with a    *)
(* newline (with exactly one when s does not end with two or more); the    *)
(* lines are spliced in the supplied order between a prefix and a suffix   *)
(* of the old sequence, with no other change.                              *)
C10_Normalization ==
    ContentStep =>
      LET c == Get(last.op.content)
          n == [j \in 1..Len(c) |-> WithNewline(c[j])]
      IN /\ lines = last.res.lines
         /\ \E p \in 0..Len(last.before) : SplicedAt(last.before, lines, n, p)
         /\ \A j \in 1..Len(c) :
               /\ n[j][Len(n[j])] = LF
               /\ (Len(c[j]) < 2 \/ c[j][Len(c[j])] # LF \/ c[j][Len(c[j]) - 1] # LF)
                     => EndsWithOneNewline(n[j])

(* A successful step whose content has a string with and one without a    *)
(* final newline                                                           *)
C10_Witness ==
    /\ ContentStep
    /\ \E j \in 1..Len(Get(last.op.content)) : EndsWithNewline(Get(last.op.content)[j])
    /\ \E j \in 1..Len(Get(last.op.content)) : ~EndsWithNewline(Get(last.op.content)[j])
    /\ lines = last.res.lines /\ lines # last.before

(* C10 as claimed: every content string is mapped to a line that ends with *)
(* exactly one newline character, s itself or s followed by one newline,   *)
(* and the lines are spliced in the supplied order with no other change.   *)
C10_ExactlyOneNewline ==
    ContentStep =>
      LET c == Get(last.op.content)
          n == [j \in 1..Len(c) |-> WithNewline(c[j])]
      IN /\ \E p \in 0..Len(last.before) : SplicedAt(last.before, lines, n, p)
         /\ \A j \in 1..Len(c) : EndsWithOneNewline(n[j])

----------------------------------------------------------------------------
(* Round trips: delete line k, then insert its text back after line k - 1, *)
(* with no expected_content, with the text of the line, or with a text     *)
(* that is not in the file                                                 *)

RoundTrip(ls, k, x) ==
    << Delete([start_line |-> Some(k), expected_content |-> x]),
       Insert([after_line |-> Some(k - 1), content |-> Some(<<ls[k]>>)]) >>

RoundTripLists(ls) ==
    UNION {{RoundTrip(ls, k, x) : x \in {None, Some(ls[k]), Some(<<"z", "z", "z">>)}}
              : k \in 1..Len(ls)}

InitRoundTrip ==
    /\ disk \in Files
    /\ disk0 = disk
    /\ operations \in RoundTripLists(ReadLines(disk))
    /\ engine = "none"
    /\ pc = "idle"
    /\ lines = <<>>
    /\ lines0 = <<>>
    /\ idx = 0
    /\ err = ""
    /\ last = NoStep
    /\ opens = 0
    /\ AppendIdle /\ PathIdle /\ ServerIdle

SpecRoundTrip == InitRoundTrip /\ [][Next]_vars

(* ls with a newline added to line k if it had none *)
Terminated(ls, k) == [ls EXCEPT ![k] = WithNewline(ls[k])]

(* C11: in edit_text_file, for every line sequence of length n and every   *)
(* k in 1..n, the list [Delete(start_line=k), Insert(after_line=k-1,       *)
(* content=[text of line k])] succeeds and writes back the original line   *)
(* sequence, except that a re-inserted line that lacked its newline now    *)
(* carries one.                                                            *)
C11_RoundTrip ==
    engine = "procedure" =>
      \A k \in 1..Len(lines0) :
         operations = RoundTrip(lines0, k, None) =>
            /\ pc # "failed"
            /\ pc = "done" =>
                  /\ lines = Terminated(lines0, k)
                  /\ disk = WriteLines(Terminated(lines0, k))
                  /\ \A j \in 1..Len(lines0) :
                        (j # k \/ EndsWithNewline(lines0[j])) => lines[j] = lines0[j]

(* A finished round trip of a last line that had no newline *)
C11_Witness ==
    /\ engine = "procedure" /\ pc = "done"
    /\ Len(lines0) = MaxLines
    /\ operations = RoundTrip(lines0, Len(lines0), None)
    /\ ~EndsWithNewline(lines0[Len(lines0)])
    /\ lines = Terminated(lines0, Len(lines0))
    /\ disk # disk0

----------------------------------------------------------------------------
(* C12: in both engines the lines are loaded with their original           *)
(* terminators (LF, CRLF or none on the last line) and written back        *)
(* without translation: the lines read, joined, are the bytes of the file; *)
(* a request whose operations leave the line sequence unchanged (an empty  *)
(* operation list for one) leaves the file byte-for-byte identical; the    *)
(* lines before the first line that any operation changed are written      *)
(* with the bytes they had.                                                *)
C12_TerminatorPreservation ==
    /\ pc = "done" => Join(lines0) = disk0
    /\ (pc = "done" /\ lines = lines0) => disk = disk0
    /\ pc = "done" =>
          \A j \in 1..Min(Len(lines), Len(lines0)) :
             (\A i \in 1..j : lines[i] = lines0[i])
                => SubSeq(disk, 1, Len(Join(SubSeq(lines0, 1, j))))
                      = SubSeq(disk0, 1, Len(Join(SubSeq(lines0, 1, j))))

----------------------------------------------------------------------------
(* append_text: tools/append.py.  The file is a sequence of bytes; a byte   *)
(* below 0x80 is written as its character, the two bytes of U+00E9 as      *)
(* "C3" and "A9".  A content string is a sequence of characters, U+00E9    *)
(* written "U+E9".  os.linesep is "\n" (POSIX).                             *)

MaxBytes == 3

MaxContent == 2

EAcute == "U+E9"

LeadByte == "C3"

ContByte == "A9"

(* str.encode('utf-8') of one character *)
EncodeChar(c) == IF c = EAcute THEN <<LeadByte, ContByte>> ELSE <<c>>

(* f.write(s) on a file opened with encoding='utf-8': the bytes of s *)
Encode(s) ==
    LET f[i \in 0..Len(s)] == IF i = 0 THEN <<>> ELSE f[i - 1] \o EncodeChar(s[i])
    IN f[Len(s)]

(* f.seek(pos); f.read(1) on a file opened with open(path, "r",            *)
(* encoding='utf-8'): the decoder starts at byte pos (0-based); a           *)
(* continuation byte there, or a lead byte without its continuation, is a  *)
(* UnicodeDecodeError; "\r" and "\r\n" are read as "\n"                      *)
SeekRead1(bytes, pos) ==
    IF pos >= Len(bytes) THEN [err |-> "", ch |-> ""]
    ELSE IF bytes[pos + 1] = ContByte THEN [err |-> "UnicodeDecodeError", ch |-> ""]
    ELSE IF bytes[pos + 1] = LeadByte
         THEN IF pos + 2 <= Len(bytes) /\ bytes[pos + 2] = ContByte
              THEN [err |-> "", ch |-> EAcute]
              ELSE [err |-> "UnicodeDecodeError", ch |-> ""]
    ELSE IF bytes[pos + 1] = CR THEN [err |-> "", ch |-> LF]
    ELSE [err |-> "", ch |-> bytes[pos + 1]]

(* for line in content: f.write(line); if not line.endswith('\n'): f.write('\n') *)
AppendedBytes(c) ==
    LET f[i \in 0..Len(c)] ==
            IF i = 0 THEN <<>>
            ELSE f[i - 1] \o Encode(c[i])
                     \o (IF EndsWithNewline(c[i]) THEN <<>> ELSE <<LF>>)
    IN f[Len(c)]

(* Inputs *)
ByteValues == {"a", LF, CR, LeadByte, ContByte}

(* Well-formed UTF-8: a lead byte is followed by its continuation byte and *)
(* a continuation byte follows a lead byte                                 *)
WellFormed(b) ==
    \A i \in 1..Len(b) :
       /\ b[i] = LeadByte => (i < Len(b) /\ b[i + 1] = ContByte)
       /\ b[i] = ContByte => (i > 1 /\ b[i - 1] = LeadByte)

AppendFiles ==
    {b \in UNION {[1..n -> ByteValues] : n \in 0..MaxBytes} : WellFormed(b)}

ContentStrings == {<<>>, <<"x">>, <<"x", LF>>, <<"x", LF, LF>>, <<EAcute>>}

ContentLists == UNION {[1..n -> ContentStrings] : n \in 0..MaxContent}

(* The state of the edit engines while another entry point runs *)
EditIdle ==
    /\ operations = <<>> /\ lines = <<>> /\ lines0 = <<>> /\ idx = 0
    /\ last = NoStep

InitAppend ==
    /\ disk \in AppendFiles
    /\ disk0 = disk
    /\ append_content \in ContentLists
    /\ ensure_newline \in BOOLEAN
    /\ needs_newline = FALSE
    /\ engine = "none"
    /\ pc = "idle"
    /\ err = ""
    /\ opens = 0
    /\ EditIdle /\ PathIdle /\ ServerIdle

(* AppendRaiseEmpty without the test: the empty content is appended *)
AppendEmptyUnchecked ==
    /\ pc = "idle" /\ append_content = <<>>
    /\ engine' = "append"
    /\ disk' = disk \o (IF ensure_newline /\ Len(disk) > 0 /\ disk[Len(disk)] # LF
                        THEN <<LF>> ELSE <<>>)
    /\ opens' = opens + 1
    /\ pc' = "done"
    /\ UNCHANGED <<disk0, err, operations, lines, lines0, idx, last>>
    /\ UNCHANGED others

(* append_text: if not content: raise ValueError("No content provided ...") *)
AppendRaiseEmpty ==
    /\ pc = "idle" /\ append_content = <<>>
    /\ engine' = "append"
    /\ pc' = "failed"
    /\ err' = "EmptyContent"
    /\ UNCHANGED <<disk, disk0, opens, operations, lines, lines0, idx, last>>
    /\ UNCHANGED others

(* append_text: the check whether the file needs a newline at its end, the *)
(* read of the last character succeeding or not being made                 *)
AppendProbe ==
    /\ pc = "idle" /\ append_content # <<>>
    /\ engine' = "append"
    /\ IF ensure_newline /\ Len(disk) > 0
       THEN \E r \in {SeekRead1(disk, Max(0, Len(disk) - 1))} :
               /\ r.err = ""
               /\ needs_newline' = (r.ch # LF)
               /\ opens' = opens + 1
       ELSE needs_newline' = FALSE /\ opens' = opens
    /\ pc' = "append"
    /\ UNCHANGED <<disk, disk0, err, operations, lines, lines0, idx, last>>
    /\ UNCHANGED <<append_content, ensure_newline, pathVars, serverVars>>

(* append_text: the read of the last character raises; the except clause   *)
(* re-raises it as ValueError("Failed to append text: ...")                *)
AppendProbeRaise ==
    /\ pc = "idle" /\ append_content # <<>>
    /\ ensure_newline /\ Len(disk) > 0
    /\ \E r \in {SeekRead1(disk, Max(0, Len(disk) - 1))} :
          /\ r.err # ""
          /\ err' = r.err
    /\ engine' = "append"
    /\ opens' = opens + 1
    /\ pc' = "failed"
    /\ UNCHANGED <<disk, disk0, operations, lines, lines0, idx, last>>
    /\ UNCHANGED others

(* append_text: open(file_path, "a") and the writes *)
AppendWrite ==
    /\ pc = "append"
    /\ disk' = disk \o (IF needs_newline THEN <<LF>> ELSE <<>>)
                    \o AppendedBytes(append_content)
    /\ opens' = opens + 1
    /\ pc' = "done"
    /\ UNCHANGED <<disk0, err, operations, engine, lines, lines0, idx, last>>
    /\ UNCHANGED others

NextAppend ==
    \/ AppendRaiseEmpty
    \/ AppendProbe
    \/ AppendProbeRaise
    \/ AppendWrite

SpecAppend == InitAppend /\ [][NextAppend]_vars

(* The bytes of a content string followed by a newline unless it ends with one *)
LineBytes(s) == Encode(s) \o (IF Len(s) > 0 /\ s[Len(s)] = LF THEN <<>> ELSE <<LF>>)

(* The bytes of every string of c, in order *)
ContentBytes(c) ==
    LET f[i \in 0..Len(c)] == IF i = 0 THEN <<>> ELSE f[i - 1] \o LineBytes(c[i])
    IN f[Len(c)]

(* C13: append_text with ensure_newline=true and a non-empty content list  *)
(* on a file with content F succeeds and produces F, then one newline if   *)
(* and only if F is non-empty and does not end with a newline, then each   *)
(* content string in order, each followed by a newline unless it ends with *)
(* one.  Stated for files that do not end with a carriage return.          *)
C13_AppendEnsureNewline ==
    (/\ engine = "append" /\ ensure_newline /\ append_content # <<>>
     /\ pc \in {"done", "failed"}
     /\ (disk0 = <<>> \/ disk0[Len(disk0)] # CR))
    => /\ pc = "done"
       /\ disk = disk0
                   \o (IF disk0 # <<>> /\ disk0[Len(disk0)] # LF THEN <<LF>> ELSE <<>>)
                   \o ContentBytes(append_content)

(* C14: append_text called with an empty content list fails with an        *)
(* empty-content error before the file is opened; the file is unchanged.   *)
C14_EmptyContent ==
    (engine = "append" /\ append_content = <<>>)
    => /\ pc = "failed" /\ err = "EmptyContent"
       /\ opens = 0
       /\ disk = disk0

(* A rejected append of no content to a file that lacks its final newline *)
C14_Witness ==
    /\ engine = "append" /\ append_content = <<>> /\ pc = "failed"
    /\ ensure_newline /\ disk # <<>> /\ disk[Len(disk)] # LF

----------------------------------------------------------------------------
(* Path validation: TextEditServer._validate_file_path (server.py) and     *)
(* validate_file_path (tools/validation.py).  A path is the sequence of    *)
(* its components, a component a sequence of characters; the file_path     *)
(* argument is [abs, parts], abs saying whether it starts with "/".  The   *)
(* file system maps the paths that exist to [kind, writable, size]; it has *)
(* no symbolic links.                                                      *)

MaxParts == 3

MAX_FILE_SIZE == 10 * 1024 * 1024

DotDot == <<".", ".">>

(* Path.resolve(): ".." steps to the parent, the parent of the root is the root *)
Resolve(parts) ==
    LET f[i \in 0..Len(parts)] ==
            IF i = 0 THEN <<>>
            ELSE IF parts[i] = DotDot
                 THEN SubSeq(f[i - 1], 1, Len(f[i - 1]) - 1)
                 ELSE Append(f[i - 1], parts[i])
    IN f[Len(parts)]

(* base_path / file_path: an absolute file_path replaces the base *)
JoinPath(base, fp) == IF fp.abs THEN fp.parts ELSE base \o fp.parts

(* str(path) *)
PathStr(path) ==
    LET f[i \in 0..Len(path)] ==
            IF i = 0 THEN <<>> ELSE f[i - 1] \o <<"/">> \o path[i]
    IN IF path = <<>> THEN <<"/">> ELSE f[Len(path)]

(* s.startswith(prefix) *)
StartsWith(s, prefix) ==
    Len(prefix) <= Len(s) /\ SubSeq(s, 1, Len(prefix)) = prefix

Exists(files, path) == path \in DOMAIN files

IsFile(files, path) == Exists(files, path) /\ files[path].kind = "file"

Accepted(path, files) == [err |-> "", path |-> Some(PathStr(path)), fs |-> files]

Rejected(kind, files) == [err |-> kind, path |-> None, fs |-> files]

(* TextEditServer._validate_file_path(file_path) *)
ServerValidateFilePath(base, fp, files) ==
    LET abs_path == Resolve(JoinPath(base, fp))
    IN IF ~StartsWith(PathStr(abs_path), PathStr(base))
       THEN Rejected("OutsideAllowedDirectory", files)
       ELSE IF ~IsFile(files, abs_path) THEN Rejected("NotARegularFile", files)
       ELSE IF ~files[abs_path].writable THEN Rejected("NotWritable", files)
       ELSE IF files[abs_path].size > MAX_FILE_SIZE THEN Rejected("FileTooLarge", files)
       ELSE Accepted(abs_path, files)

NewDir == [kind |-> "dir", writable |-> TRUE, size |-> 0]

NewFile == [kind |-> "file", writable |-> TRUE, size |-> 0]

(* abs_path.parent.mkdir(parents=True, exist_ok=True): [err, fs] *)
MkdirParents(files, dir) ==
    IF \E n \in 0..Len(dir) : IsFile(files, SubSeq(dir, 1, n))
    THEN [err |-> "FileExistsError", fs |-> files]
    ELSE [err |-> "",
          fs |-> [q \in DOMAIN files \cup {SubSeq(dir, 1, n) : n \in 0..Len(dir)} |->
                     IF q \in DOMAIN files THEN files[q] ELSE NewDir]]

(* validate_file_path(base_path, file_path) *)
validate_file_path(base, fp, files) ==
    LET abs_path == Resolve(JoinPath(base, fp))
        parent   == SubSeq(abs_path, 1, Len(abs_path) - 1)
    IN IF ~StartsWith(PathStr(abs_path), PathStr(base))
       THEN Rejected("OutsideAllowedDirectory", files)
       ELSE Only({ IF m.err # "" THEN Rejected(m.err, m.fs)
                   ELSE Only({ IF ~IsFile(g, abs_path) THEN Rejected("NotARegularFile", g)
                               ELSE IF ~g[abs_path].writable THEN Rejected("NotWritable", g)
                               ELSE IF g[abs_path].size > MAX_FILE_SIZE
                                    THEN Rejected("FileTooLarge", g)
                               ELSE Accepted(abs_path, g)
                               : g \in {IF Exists(m.fs, abs_path) THEN m.fs
                                        ELSE [q \in DOMAIN m.fs \cup {abs_path} |->
                                                 IF q = abs_path THEN NewFile ELSE m.fs[q]]} })
                   : m \in {MkdirParents(files, parent)} })

(* Inputs *)
Srv == <<"s", "r", "v">>

Data == <<"d", "a", "t", "a">>

Data2 == <<"d", "a", "t", "a", "2">>

X == <<"x">>

(* The base directory /srv/data *)
BasePath == <<Srv, Data>>

Components == {Srv, Data, Data2, X, DotDot}

FilePaths ==
    {[abs |-> a, parts |-> ps] :
        a \in BOOLEAN, ps \in UNION {[1..n -> Components] : n \in 1..MaxParts}}

Dir == [kind |-> "dir", writable |-> TRUE, size |-> 0]

File(w, n) == [kind |-> "file", writable |-> w, size |-> n]

(* /srv/data and /srv/data2 exist; x is a file with the given properties   *)
(* under both, or under neither                                            *)
Dirs == {<<>>, <<Srv>>, <<Srv, Data>>, <<Srv, Data2>>}

Tree(haveX, f) ==
    [q \in Dirs \cup (IF haveX THEN {<<Srv, Data, X>>, <<Srv, Data2, X>>} ELSE {}) |->
        IF q \in Dirs THEN Dir ELSE f]

FileSystems ==
    {Tree(FALSE, File(TRUE, 0))}
    \cup {Tree(TRUE, File(w, n)) : w \in BOOLEAN, n \in {0, MAX_FILE_SIZE, MAX_FILE_SIZE + 1}}

InitPath ==
    /\ base_path = BasePath
    /\ file_path \in FilePaths
    /\ fs \in FileSystems
    /\ validated = None
    /\ disk = <<>> /\ disk0 = <<>>
    /\ engine = "none"
    /\ pc = "idle"
    /\ err = ""
    /\ opens = 0
    /\ EditIdle /\ AppendIdle /\ ServerIdle

(* A call of TextEditServer._validate_file_path *)
ServerValidate ==
    /\ pc = "idle"
    /\ engine' = "server"
    /\ \E r \in {ServerValidateFilePath(base_path, file_path, fs)} :
          /\ validated' = r.path
          /\ err' = r.err
          /\ fs' = r.fs
          /\ pc' = IF r.err = "" THEN "done" ELSE "failed"
    /\ UNCHANGED <<disk, disk0, opens, operations, lines, lines0, idx, last>>
    /\ UNCHANGED <<base_path, file_path, appendVars, serverVars>>

(* A call of tools.validation.validate_file_path *)
ToolsValidate ==
    /\ pc = "idle"
    /\ engine' = "tools"
    /\ \E r \in {validate_file_path(base_path, file_path, fs)} :
          /\ validated' = r.path
          /\ err' = r.err
          /\ fs' = r.fs
          /\ pc' = IF r.err = "" THEN "done" ELSE "failed"
    /\ UNCHANGED <<disk, disk0, opens, operations, lines, lines0, idx, last>>
    /\ UNCHANGED <<base_path, file_path, appendVars, serverVars>>

NextPath ==
    \/ ServerValidate
    \/ ToolsValidate

SpecPath == InitPath /\ [][NextPath]_vars

(* The components of base are a prefix of the components of path *)
Inside(base, path) ==
    Len(base) <= Len(path) /\ \A i \in 1..Len(base) : path[i] = base[i]

(* C17: both validators return a path only if the resolved target lies     *)
(* inside the base directory, the base's components being a prefix of the  *)
(* target's; a target in a sibling directory whose name starts with the    *)
(* base's name, or one reached through "..", is rejected with an error.    *)
C17_PathSandbox ==
    engine \in {"server", "tools"} =>
       LET target == Resolve(JoinPath(base_path, file_path))
       IN /\ pc = "done" => (IsSome(validated) /\ Inside(base_path, target))
          /\ ~Inside(base_path, target) =>
                pc = "failed" /\ err # "" /\ validated = None

----------------------------------------------------------------------------
(* The server: TextEditServer.call_tool for the tool "edit_file"           *)
(* (server.py).  Every tool call is a coroutine of one asyncio event loop; *)
(* the loop runs one coroutine at a time and takes another only when the  *)
(* running one awaits or ends.  The handler has no await between its      *)
(* first and its last statement.  All calls name the file /srv/data/x,     *)
(* whose content is disk.                                                  *)

MAX_OPERATIONS == 1000

Calls == {1, 2}

(* The file the calls are about *)
TargetPath == <<Srv, Data, X>>

(* TextEditServer._validate_operations(operations): the error kind, "" if none *)
ValidateOperationsNoLimit(ops) ==
    IF ops = <<>> THEN "NoOperations"
    ELSE LET bad == {i \in 1..Len(ops) :
                        \/ "type" \notin DOMAIN ops[i]
                        \/ ops[i].type \notin {"delete", "replace", "insert"}}
         IN IF bad = {} THEN ""
            ELSE IF "type" \notin DOMAIN ops[CHOOSE i \in bad : \A j \in bad : i <= j]
                 THEN "MissingType" ELSE "InvalidType"

ValidateOperations(ops) ==
    IF ops = <<>> THEN "NoOperations"
    ELSE IF Len(ops) > MAX_OPERATIONS THEN "TooManyOperations"
    ELSE LET bad == {i \in 1..Len(ops) :
                        \/ "type" \notin DOMAIN ops[i]
                        \/ ops[i].type \notin {"delete", "replace", "insert"}}
         IN IF bad = {} THEN ""
            ELSE IF "type" \notin DOMAIN ops[CHOOSE i \in bad : \A j \in bad : i <= j]
                 THEN "MissingType" ELSE "InvalidType"

(* The two validations of call_tool, in order: the error kind, "" if none *)
ValidateCall(arguments, base, files) ==
    Only({ IF v.err # "" THEN v.err ELSE ValidateOperations(arguments.operations)
           : v \in {ServerValidateFilePath(base, arguments.file_path, files)} })

(* A tool call that has arrived and whose handler has not started *)
Pending(arguments) ==
    [arguments |-> arguments, pc |-> "pending", lines |-> <<>>, idx |-> 0,
     err |-> "", response |-> None]

(* types.TextContent(type="text", text=..., isError=True) and the one      *)
(* without isError                                                         *)
ErrorResponse == Some([isError |-> TRUE])

SuccessResponse == Some([isError |-> FALSE])

(* The event loop can run a step of call r: no other call is running *)
Scheduled(r) == running \in {0, r}

(* SrvRead with an await after the read: the event loop may take another call *)
SrvReadYield(r) ==
    /\ reqs[r].pc = "pending" /\ Scheduled(r)
    /\ ValidateCall(reqs[r].arguments, base_path, fs) = ""
    /\ reqs' = [reqs EXCEPT ![r].pc = "loop", ![r].lines = ReadLines(disk)]
    /\ running' = 0
    /\ log' = Append(log, <<r, "read">>)
    /\ opens' = opens + 1
    /\ UNCHANGED <<disk, disk0, pc, err, editVars, appendVars, pathVars>>

(* call_tool: a validation raises; the except clause returns the error     *)
(* response and edit_text_file is never called                             *)
SrvReject(r) ==
    /\ reqs[r].pc = "pending" /\ Scheduled(r)
    /\ \E e \in {ValidateCall(reqs[r].arguments, base_path, fs)} :
          /\ e # ""
          /\ reqs' = [reqs EXCEPT ![r].pc = "failed", ![r].err = e,
                                  ![r].response = ErrorResponse]
    /\ log' = Append(log, <<r, "reject">>)
    /\ UNCHANGED <<disk, disk0, pc, err, opens, running, editVars, appendVars, pathVars>>

(* call_tool: both validations pass; edit_text_file opens and reads the file *)
SrvRead(r) ==
    /\ reqs[r].pc = "pending" /\ Scheduled(r)
    /\ ValidateCall(reqs[r].arguments, base_path, fs) = ""
    /\ reqs' = [reqs EXCEPT ![r].pc = "loop", ![r].lines = ReadLines(disk)]
    /\ running' = r
    /\ log' = Append(log, <<r, "read">>)
    /\ opens' = opens + 1
    /\ UNCHANGED <<disk, disk0, pc, err, editVars, appendVars, pathVars>>

(* edit_text_file: one iteration of the loop whose apply returns *)
SrvApply(r) ==
    /\ reqs[r].pc = "loop" /\ Scheduled(r)
    /\ reqs[r].idx < Len(reqs[r].arguments.operations)
    /\ \E res \in {ProcOperation(reqs[r].arguments.operations[reqs[r].idx + 1],
                                 reqs[r].lines)} :
          /\ res.err = ""
          /\ reqs' = [reqs EXCEPT ![r].lines = res.lines, ![r].idx = @ + 1]
    /\ running' = r
    /\ UNCHANGED <<disk, disk0, pc, err, opens, log, editVars, appendVars, pathVars>>

(* edit_text_file: an iteration raises; call_tool's except clause returns  *)
(* the error response                                                      *)
SrvRaise(r) ==
    /\ reqs[r].pc = "loop" /\ Scheduled(r)
    /\ reqs[r].idx < Len(reqs[r].arguments.operations)
    /\ \E res \in {ProcOperation(reqs[r].arguments.operations[reqs[r].idx + 1],
                                 reqs[r].lines)} :
          /\ res.err # ""
          /\ reqs' = [reqs EXCEPT ![r].pc = "failed", ![r].err = res.err,
                                  ![r].response = ErrorResponse]
    /\ running' = 0
    /\ log' = Append(log, <<r, "raise">>)
    /\ UNCHANGED <<disk, disk0, pc, err, opens, editVars, appendVars, pathVars>>

(* edit_text_file: the write; call_tool returns the success response *)
SrvWrite(r) ==
    /\ reqs[r].pc = "loop" /\ Scheduled(r)
    /\ reqs[r].idx = Len(reqs[r].arguments.operations)
    /\ disk' = WriteLines(reqs[r].lines)
    /\ fs' = [fs EXCEPT ![TargetPath].size = Len(WriteLines(reqs[r].lines))]
    /\ reqs' = [reqs EXCEPT ![r].pc = "done", ![r].response = SuccessResponse]
    /\ running' = 0
    /\ log' = Append(log, <<r, "write">>)
    /\ opens' = opens + 1
    /\ UNCHANGED <<disk0, pc, err, editVars, appendVars>>
    /\ UNCHANGED <<base_path, file_path, validated>>

NextServer ==
    \/ \E r \in Calls : SrvReject(r)
    \/ \E r \in Calls : SrvRead(r)
    \/ \E r \in Calls : SrvApply(r)
    \/ \E r \in Calls : SrvRaise(r)
    \/ \E r \in Calls : SrvWrite(r)

(* Inputs *)
ServerFiles == {<<>>, <<"a", LF>>, <<"a", LF, "b">>}

ServerOps ==
    { Delete([start_line |-> Some(1)]),
      Insert([after_line |-> Some(0), content |-> Some(<< <<"x">> >>)]),
      Delete([start_pattern |-> Some(<<"z">>)]) }

InsideFile == [abs |-> FALSE, parts |-> <<X>>]

OutsideFile == [abs |-> FALSE, parts |-> <<DotDot, X>>]

(* The arguments of the calls: r -> [file_path, operations] *)
InitServerWith(files, args) ==
    /\ disk \in files
    /\ disk0 = disk
    /\ base_path = BasePath
    /\ file_path = <<>>
    /\ validated = None
    /\ fs = Tree(TRUE, File(TRUE, Len(disk)))
    /\ reqs \in {[r \in Calls |-> Pending(a[r])] : a \in args}
    /\ running = 0
    /\ log = <<>>
    /\ engine = "none"
    /\ pc = "idle"
    /\ err = ""
    /\ opens = 0
    /\ EditIdle /\ AppendIdle

ServerArgs ==
    {[r \in Calls |-> [file_path |-> IF r = 1 THEN p ELSE InsideFile,
                       operations |-> o[r]]]
        : p \in {InsideFile, OutsideFile}, o \in [Calls -> OpLists(ServerOps)]}

InitServer == InitServerWith(ServerFiles, ServerArgs)

SpecServer == InitServer /\ [][NextServer]_vars

(* One call handled alone on a file with content d: [ok, disk] *)
CallAlone(arguments, d) ==
    IF ValidateCall(arguments, base_path, Tree(TRUE, File(TRUE, Len(d)))) # ""
    THEN [ok |-> FALSE, disk |-> d]
    ELSE Only({ IF r.err # "" THEN [ok |-> FALSE, disk |-> d]
                ELSE [ok |-> TRUE, disk |-> WriteLines(r.lines)]
                : r \in {ProcFold(arguments.operations, ReadLines(d))} })

(* The calls handled one after the other in the given order, from disk0:   *)
(* the content of the file after each                                      *)
Serial(order) ==
    LET f[i \in 0..Len(order)] ==
            IF i = 0 THEN disk0
            ELSE CallAlone(reqs[order[i]].arguments, f[i - 1]).disk
    IN f

Orders ==
    {o \in [1..Cardinality(Calls) -> Calls] : \A i, j \in DOMAIN o : o[i] = o[j] => i = j}

Finished(r) == reqs[r].pc \in {"done", "failed"}

(* C16: for two edit_file tool calls of one server process on the same     *)
(* path, no step of one call is between the other's read of the file and   *)
(* its final write (or its failure): at most one call is between its read  *)
(* and its end, and the read of a call is directly followed by the end of  *)
(* that call.  When both calls have ended the file holds the result of     *)
(* handling them one after the other in some order, every call succeeding  *)
(* exactly when it succeeds in that order, so no successful edit is lost.  *)
C16_NoInterleaving ==
    reqs # <<>> =>
      /\ \A r, q \in Calls : (reqs[r].pc = "loop" /\ reqs[q].pc = "loop") => r = q
      /\ \A r \in Calls : reqs[r].pc = "loop" => running = r
      /\ \A i \in 1..(Len(log) - 1) : log[i][2] = "read" => log[i + 1][1] = log[i][1]
      /\ (\A r \in Calls : Finished(r)) =>
            \E o \in Orders :
               /\ disk = Serial(o)[Len(o)]
               /\ \A i \in 1..Len(o) :
                     (reqs[o[i]].pc = "done")
                        = CallAlone(reqs[o[i]].arguments, Serial(o)[i - 1]).ok

(* Both calls succeeded and the file holds the edits of both *)
C16_Witness ==
    /\ reqs # <<>>
    /\ \A r \in Calls : reqs[r].pc = "done" /\ reqs[r].arguments.operations # <<>>
    /\ \A r \in Calls : disk # CallAlone(reqs[r].arguments, disk0).disk
    /\ disk # disk0

----------------------------------------------------------------------------
(* Operation lists around the limit of MAX_OPERATIONS entries *)

(* [op] * n *)
Repeat(op, n) == [i \in 1..n |-> op]

(* An operation record without the key "type" *)
Untyped(op) == [k \in DOMAIN op \ {"type"} |-> op[k]]

(* Replace(start_line=1, content=["a"]): succeeds on every file *)
KeepOp == Replace([start_line |-> Some(1), content |-> Some(<< <<"a">> >>)])

FailOp == Delete([start_pattern |-> Some(<<"z">>)])

BogusOp == [BaseOp("bogus") EXCEPT !.start_line = Some(1)]

LimitLists ==
    { <<>>,
      <<Untyped(KeepOp)>>,
      <<KeepOp, BogusOp>>,
      Repeat(KeepOp, MAX_OPERATIONS),
      Repeat(KeepOp, MAX_OPERATIONS + 1),
      Repeat(KeepOp, MAX_OPERATIONS - 1) \o <<FailOp>>,
      Repeat(KeepOp, MAX_OPERATIONS - 1) \o <<Untyped(KeepOp)>>,
      Repeat(KeepOp, MAX_OPERATIONS) \o <<BogusOp>> }

LimitArgs ==
    {[r \in Calls |-> [file_path |-> InsideFile,
                       operations |-> IF r = 1 THEN o ELSE s]]
        : o \in LimitLists, s \in {<<>>, <<KeepOp>>}}

InitLimit == InitServerWith({<<"a", LF>>}, LimitArgs)

SpecLimit == InitLimit /\ [][NextServer]_vars

(* The entry has its type, one of the three *)
WellTyped(op) == "type" \in DOMAIN op /\ op.type \in {"delete", "replace", "insert"}

(* The call r has read, or written, the file *)
Logged(r, kind) == \E i \in 1..Len(log) : log[i] = <<r, kind>>

(* C15: in the server's edit_file tool call an operation list with more    *)
(* than MAX_OPERATIONS entries, an empty list, and a list with an entry    *)
(* whose type is missing or unrecognised, is rejected with the error       *)
(* response before edit_text_file is called: the call never opens, reads   *)
(* or writes the file; a list of exactly MAX_OPERATIONS well-typed entries *)
(* passes the count check and reaches edit_text_file.                      *)
C15_OperationLimit ==
    reqs # <<>> =>
      /\ opens = Cardinality({i \in 1..Len(log) : log[i][2] \in {"read", "write"}})
      /\ \A r \in Calls :
            reqs[r].pc # "pending" =>
               \E ops \in {reqs[r].arguments.operations} :
               \E typed \in {\A i \in 1..Len(ops) : WellTyped(ops[i])} :
                  /\ (ops = <<>> \/ Len(ops) > MAX_OPERATIONS \/ ~typed)
                     => /\ reqs[r].pc = "failed"
                        /\ reqs[r].response = ErrorResponse
                        /\ reqs[r].lines = <<>> /\ reqs[r].idx = 0
                        /\ ~Logged(r, "read") /\ ~Logged(r, "write")
                  /\ Len(ops) > MAX_OPERATIONS => reqs[r].err = "TooManyOperations"
                  /\ (Len(ops) = MAX_OPERATIONS /\ typed)
                     => reqs[r].err # "TooManyOperations" /\ Logged(r, "read")
      /\ (\A r \in Calls : reqs[r].pc = "failed" /\ ~Logged(r, "read")) => disk = disk0

(* A list of MAX_OPERATIONS + 1 well-typed entries was rejected, no call   *)
(* having touched the file                                                 *)
C15_Witness ==
    /\ reqs # <<>>
    /\ \E r \in Calls :
          /\ Len(reqs[r].arguments.operations) = MAX_OPERATIONS + 1
          /\ \A i \in 1..(MAX_OPERATIONS + 1) : WellTyped(reqs[r].arguments.operations[i])
          /\ reqs[r].pc = "failed" /\ reqs[r].err = "TooManyOperations"
    /\ opens = 0 /\ disk = disk0

----------------------------------------------------------------------------
(* No content string of the operation list has a newline before its last   *)
(* character                                                               *)
NoEmbeddedNewline(ops) ==
    \A i \in 1..Len(ops) :
       IsSome(ops[i].content) =>
          \A j \in 1..Len(Get(ops[i].content)) :
             \A k \in 1..(Len(Get(ops[i].content)[j]) - 1) :
                Get(ops[i].content)[j][k] # LF

(* Every operation of the list is an Insert by line number after a line    *)
(* of the file as read, or at its front                                    *)
InsertsInRange(ops, ls) ==
    \A i \in 1..Len(ops) :
       /\ ops[i].type = "insert" /\ LineMode(ops[i])
       /\ IsSome(ops[i].after_line) /\ Get(ops[i].after_line) \in 0..Len(ls)

(* C18: in edit_text_file, for any file and any list of operations that    *)
(* all succeed, with content strings that contain no embedded newline,     *)
(* every element of the written line sequence other than the last ends     *)
(* with a newline, so the written file read back has the same lines: each  *)
(* content string is a line of its own and is never joined to an existing  *)
(* line, also when it is inserted after a last line without a newline.     *)
(* Stated for lists of Insert operations whose after_line lies within the  *)
(* file as read.                                                           *)
C18_LineStructure ==
    (/\ engine = "procedure" /\ pc = "done"
     /\ NoEmbeddedNewline(operations) /\ InsertsInRange(operations, lines0))
    => /\ \A j \in 1..(Len(lines) - 1) : EndsWithNewline(lines[j])
       /\ ReadLines(disk) = lines

====
